---- MODULE Spec2Model ----
(***************************************************************************)
(* axum-derive-error: the ErrorResponse derive macro (src/src/lib.rs).     *)
(*                                                                         *)
(* The model has two halves.  The first is the macro itself: it reads a    *)
(* DeriveInput and either panics or emits three impls.  The second is the  *)
(* emitted code, run on one value of the enum: status_code, into_response  *)
(* and Debug::fmt.  Token streams are modelled as structured values (an    *)
(* arm is a variant name, a pattern and the tokens of its body), and the   *)
(* text Debug writes as a sequence of pieces, "\n" being a piece.          *)
(***************************************************************************)
EXTENDS Integers, Sequences, FiniteSets, TLC

\* Bounds of the explored inputs.
MaxVariants == 2    \* variants of the input enum
MaxAttrs == 2       \* attributes over the whole enum
MaxFields == 1      \* fields of one variant
MaxChain == 2       \* causes behind one error value

VARIABLES
    input,      \* the DeriveInput handed to the macro
    pc,         \* "start", "panicked", "generated", or the generated method that ran
    panic,      \* the panic message of the macro, "" when none
    output,     \* the TokenStream the macro returned
    self,       \* the enum value a generated method was called on
    to_string,  \* what the user's Display impl writes for self
    source,     \* the display messages of self's causes, immediate cause first
    ret,        \* what the generated method returned
    log         \* the tracing events emitted

vars == <<input, pc, panic, output, self, to_string, source, ret, log>>

----------------------------------------------------------------------------
(* Inputs *)

\* The expressions a status attribute carries in the explored inputs, as the
\* attribute's token stream (the parentheses belong to it).
StatusTokens == {"(StatusCode::UNPROCESSABLE_ENTITY)", "(StatusCode::SERVICE_UNAVAILABLE)"}

\* An attribute: its path (a sequence of segments) and its tokens.
Attrs ==
    {[path |-> <<"doc">>, tokens |-> "= \"text\""]}
    \cup {[path |-> <<"status">>, tokens |-> t] : t \in StatusTokens}

\* syn::Fields: Unit, Unnamed (positional) with n fields, Named with n fields.
FieldShapes ==
    {[kind |-> "Unit", n |-> 0]}
    \cup {[kind |-> k, n |-> j] : k \in {"Unnamed", "Named"}, j \in 1..MaxFields}

\* The variants of an enum: variant i has the shape shapes[i] and carries, in
\* their order, the attributes of `flat` that `owner` gives it.  A variant's
\* ident is its position in the declaration (idents of one enum are distinct).
MakeVariants(shapes, flat, owner) ==
    [i \in DOMAIN shapes |->
        LET mine == {k \in DOMAIN flat : owner[k] = i}
            first == CHOOSE k \in mine : \A j \in mine : k <= j
        IN  [ident |-> i,
             attrs |-> [j \in 1..Cardinality(mine) |-> flat[first + j - 1]],
             fields |-> shapes[i]]]

\* `in` is an enum of at most MaxVariants variants, their shapes drawn from
\* `shapeSet`, that carries at most MaxAttrs attributes over all its variants.
IsEnumInput(in, shapeSet) ==
    \E n \in 0..MaxVariants, t \in 0..MaxAttrs :
        \E shapes \in [1..n -> shapeSet], flat \in [1..t -> Attrs], owner \in [1..t -> 1..n] :
            /\ \A k \in 1..t : \A j \in 1..t : k <= j => owner[k] <= owner[j]
            /\ in = [data |-> "Enum", ident |-> "CreateUserError",
                     variants |-> MakeVariants(shapes, flat, owner)]

\* A struct or a union has no variants; the macro never looks inside them.
OtherInputs ==
    {[data |-> d, ident |-> "CreateUserError", variants |-> <<>>] : d \in {"Struct", "Union"}}

\* The shapes of the enums the generated into_response and fmt are run on: a
\* variant is a unit or wraps one positional field.
RunShapes == {[kind |-> "Unit", n |-> 0], [kind |-> "Unnamed", n |-> 1]}

Payloads == {"p", "q"}
Msgs == {"body is invalid: bad input", "Internal server error"}
CauseMsgs == {"db failed", "connection reset"}

\* The cause chains of at most k causes.
Chains(k) == UNION {{[i \in 1..n |-> f[i]] : f \in [1..n -> CauseMsgs]} : n \in 0..k}

\* The values of the enum `variants` declares.
Values(variants) ==
    UNION {{[variant |-> variants[i].ident,
             fields |-> [kind |-> variants[i].fields.kind, vals |-> vals]] :
                vals \in [1..variants[i].fields.n -> Payloads]}
           : i \in DOMAIN variants}

----------------------------------------------------------------------------
(* The macro *)

\* Path::get_ident: Some(ident) for a path of one segment, modelled as a
\* sequence of at most one element.
get_ident(path) == IF Len(path) = 1 THEN <<path[1]>> ELSE <<>>

\* The closure given to find.
is_status(attr) ==
    LET id == get_ident(attr.path) IN IF id = <<>> THEN FALSE ELSE id[1] = "status"

find_last(attrs) ==
    LET hits == {k \in DOMAIN attrs : is_status(attrs[k])}
    IN  IF hits = {} THEN <<>>
        ELSE <<attrs[CHOOSE k \in hits : \A j \in hits : j <= k]>>

\* variant.attrs.into_iter().find(..): the first attribute the closure accepts.
find(attrs) ==
    LET hits == {k \in DOMAIN attrs : is_status(attrs[k])}
    IN  IF hits = {} THEN <<>>
        ELSE <<attrs[CHOOSE k \in hits : \A j \in hits : k <= j]>>

match_fields_short(fields) ==
    CASE fields.kind = "Named" -> [delim |-> "brace", rest |-> TRUE, wild |-> 0]
      [] fields.kind = "Unnamed" -> [delim |-> "paren", rest |-> FALSE, wild |-> fields.n - 1]
      [] fields.kind = "Unit" -> [delim |-> "none", rest |-> FALSE, wild |-> 0]

\* The pattern after the variant's name: {..}, (_, _,) or nothing.
match_fields(fields) ==
    CASE fields.kind = "Named" -> [delim |-> "brace", rest |-> TRUE, wild |-> 0]
      [] fields.kind = "Unnamed" -> [delim |-> "paren", rest |-> FALSE, wild |-> fields.n]
      [] fields.kind = "Unit" -> [delim |-> "none", rest |-> FALSE, wild |-> 0]

default_status_bad == "::axum::http::StatusCode::BAD_REQUEST"

\* The body of the arm of a variant without a status attribute.
default_status == "::axum::http::StatusCode::INTERNAL_SERVER_ERROR"

\* One match arm of status_code, for one variant.
status_arm(variant) ==
    LET attr == find(variant.attrs)
    IN  [variant |-> variant.ident,
         pattern |-> match_fields(variant.fields),
         body |-> IF attr # <<>> THEN attr[1].tokens ELSE default_status]

status_codes_reversed(variants) ==
    [i \in DOMAIN variants |-> status_arm(variants[Len(variants) + 1 - i])]

\* enum_data.variants.into_iter().map(..): one arm per variant, in order.
status_codes(variants) == [i \in DOMAIN variants |-> status_arm(variants[i])]

AllImpls == {"status_code", "IntoResponse", "Debug"}
NoOutput == [ident |-> "", status_codes |-> <<>>, impls |-> {}]

derive_error_response_for_enum(ident, variants) ==
    [ident |-> ident, status_codes |-> status_codes(variants), impls |-> AllImpls]

derive_lenient(in) ==
    IF in.data = "Union"
    THEN [pc |-> "panicked", panic |-> "cannot derive ErrorResponse for unions",
          output |-> NoOutput]
    ELSE [pc |-> "generated", panic |-> "",
          output |-> derive_error_response_for_enum(in.ident, in.variants)]

\* What derive_error_response does with one input: a panic or the impls.
derive(in) ==
    CASE in.data = "Union" ->
            [pc |-> "panicked", panic |-> "cannot derive ErrorResponse for unions",
             output |-> NoOutput]
      [] in.data = "Struct" ->
            [pc |-> "panicked", panic |-> "cannot derive ErrorResponse for structs yet",
             output |-> NoOutput]
      [] in.data = "Enum" ->
            [pc |-> "generated", panic |-> "",
             output |-> derive_error_response_for_enum(in.ident, in.variants)]

derive_error_response ==
    /\ pc = "start"
    /\ LET r == derive(input)
       IN  /\ pc' = r.pc
           /\ panic' = r.panic
           /\ output' = r.output
    /\ UNCHANGED <<input, self, to_string, source, ret, log>>

----------------------------------------------------------------------------
(* The generated code *)

\* The value of the expression an arm's body holds; 0 when the tokens are no
\* expression of type StatusCode (the generated code would not compile).
Eval(tokens) ==
    CASE tokens = "::axum::http::StatusCode::INTERNAL_SERVER_ERROR" -> 500
      [] tokens = "::axum::http::StatusCode::BAD_REQUEST" -> 400
      [] tokens = "(StatusCode::UNPROCESSABLE_ENTITY)" -> 422
      [] tokens = "(StatusCode::SERVICE_UNAVAILABLE)" -> 503
      [] OTHER -> 0

\* Whether the pattern of an arm accepts a value of the arm's variant.
PatternFits(pattern, fields) ==
    CASE pattern.delim = "brace" -> pattern.rest
      [] pattern.delim = "paren" -> fields.kind = "Unnamed" /\ Len(fields.vals) = pattern.wild
      [] pattern.delim = "none" -> fields.kind = "Unit"

\* match self { arms }: the body of the first arm that matches, 0 when no arm
\* does (the match would not be exhaustive).
status_code(arms, v) ==
    LET hits == {i \in DOMAIN arms :
                    arms[i].variant = v.variant /\ PatternFits(arms[i].pattern, v.fields)}
    IN  IF hits = {} THEN 0
        ELSE Eval(arms[CHOOSE i \in hits : \A j \in hits : i <= j].body)

call_status_code ==
    /\ pc = "generated"
    /\ \E v \in Values(input.variants) :
        /\ self' = v
        /\ ret' = status_code(output.status_codes, v)
    /\ pc' = "status_code"
    /\ UNCHANGED <<input, panic, output, to_string, source, log>>

\* StatusCode::is_server_error: 500 <= code < 600.
is_server_error(status) == 600 > status /\ status >= 500

\* StatusCode::as_u16: the number the StatusCode wraps.
as_u16(status) == status

fmt_skips_first(msg, chain) ==
    LET RECURSIVE caused_by(_)
        caused_by(current) ==
            IF current = <<>> THEN <<>>
            ELSE <<"Caused by:", "\n", "\t", Head(current), "\n">> \o caused_by(Tail(current))
    IN  <<msg, "\n", "\n">> \o caused_by(IF chain = <<>> THEN <<>> ELSE Tail(chain))

\* Debug::fmt: the pieces written to the formatter.  `current` is the rest of
\* the chain: its head is the cause at hand, its tail that cause's sources.
fmt(msg, chain) ==
    LET RECURSIVE caused_by(_)
        caused_by(current) ==
            IF current = <<>> THEN <<>>
            ELSE <<"Caused by:", "\n", "\t", Head(current), "\n">> \o caused_by(Tail(current))
    IN  <<msg, "\n", "\n">> \o caused_by(chain)

events_after_replace(status, msg, details) ==
    IF is_server_error(status)
    THEN <<[message |-> "internal server error",
            error_message |-> "Internal server error",
            error_details |-> details]>>
    ELSE <<>>

\* The tracing events of one into_response call.
events(status, msg, details) ==
    IF is_server_error(status)
    THEN <<[message |-> "internal server error",
            error_message |-> msg,
            error_details |-> details]>>
    ELSE <<>>

error_message_always_hidden(status, msg) == "Internal server error"

error_message_never_hidden(status, msg) == msg

\* error_message as the body receives it.
error_message(status, msg) ==
    IF is_server_error(status) THEN "Internal server error" ELSE msg

json_fixed_code(status, error) == [code |-> 500, error |-> error]

\* The serde_json::json! body.
json(status, error) == [code |-> as_u16(status), error |-> error]

\* IntoResponse::into_response: the response and the events emitted.
into_response(arms, v, msg, chain) ==
    LET status == status_code(arms, v)
    IN  [response |-> [status |-> status, body |-> json(status, error_message(status, msg))],
         events |-> events(status, msg, fmt(msg, chain))]

call_into_response ==
    /\ pc = "generated"
    /\ \E v \in Values(input.variants), msg \in Msgs, chain \in Chains(MaxChain) :
        LET r == into_response(output.status_codes, v, msg, chain)
        IN  /\ self' = v
            /\ to_string' = msg
            /\ source' = chain
            /\ ret' = r.response
            /\ log' = log \o r.events
    /\ pc' = "into_response"
    /\ UNCHANGED <<input, panic, output>>

call_fmt ==
    /\ pc = "generated"
    /\ \E v \in Values(input.variants), msg \in Msgs, chain \in Chains(MaxChain) :
        /\ self' = v
        /\ to_string' = msg
        /\ source' = chain
        /\ ret' = fmt(msg, chain)
    /\ pc' = "fmt"
    /\ UNCHANGED <<input, panic, output, log>>

----------------------------------------------------------------------------
(* Specifications *)

InitRuntime ==
    /\ pc = "start"
    /\ panic = ""
    /\ output = NoOutput
    /\ self = [variant |-> 0, fields |-> [kind |-> "Unit", vals |-> <<>>]]
    /\ to_string = ""
    /\ source = <<>>
    /\ ret = 0
    /\ log = <<>>

\* The macro on every input, and the generated status_code on every value.
Init ==
    /\ \/ IsEnumInput(input, FieldShapes)
       \/ input \in OtherInputs
    /\ InitRuntime

Next == derive_error_response \/ call_status_code

Spec == Init /\ [][Next]_vars

\* The generated into_response and fmt, on every value with every message
\* and cause chain.
InitRun ==
    /\ IsEnumInput(input, RunShapes)
    /\ InitRuntime

NextRun == derive_error_response \/ call_into_response \/ call_fmt

SpecRun == InitRun /\ [][NextRun]_vars

----------------------------------------------------------------------------
(* Properties *)

InternalServerErrorText == "Internal server error"

\* A server-fault status: 5xx.
ServerFault(status) == status \in 500..599

\* The status attributes of a variant, in source order.
StatusMarkers(variant) == SelectSeq(variant.attrs, LAMBDA a : a.path = <<"status">>)

\* The declaration of the variant `self` belongs to.
SelfVariant == input.variants[CHOOSE i \in DOMAIN input.variants : input.variants[i].ident = self.variant]

\* status_code() of the value the generated method ran on.
SelfStatus == status_code(output.status_codes, self)

Generated == input.data = "Enum" /\ pc # "start"

RECURSIVE SplitLines(_, _)
\* The lines of a text given as pieces: `line` is the line being collected.
\* Each "\n" ends a line; what follows the last "\n" is a line when not empty.
SplitLines(text, line) ==
    IF text = <<>> THEN (IF line = <<>> THEN <<>> ELSE <<line>>)
    ELSE IF Head(text) = "\n" THEN <<line>> \o SplitLines(Tail(text), <<>>)
    ELSE SplitLines(Tail(text), Append(line, Head(text)))

\* C1: whenever status_code() of the value is a 5xx status, the error field of
\* the body into_response built is the literal "Internal server error", and so
\* differs from every display message that is not that literal itself.
C1_InformationHiding ==
    (pc = "into_response" /\ ServerFault(SelfStatus)) =>
        /\ ret.body.error = InternalServerErrorText
        /\ (to_string # InternalServerErrorText => ret.body.error # to_string)

C1_Witness ==
    /\ pc = "into_response"
    /\ StatusMarkers(SelfVariant) # <<>>
    /\ ServerFault(SelfStatus)
    /\ to_string = "body is invalid: bad input"
    /\ source # <<>>
    /\ ret.body.error = InternalServerErrorText

\* C2: status_code() of a value of a variant without a status attribute is
\* 500, whatever the variant's shape and the value's payload.
C2_DefaultClassification ==
    (pc = "status_code" /\ StatusMarkers(SelfVariant) = <<>>) => ret = 500

C2_Witness ==
    /\ pc = "status_code"
    /\ SelfVariant.attrs # <<>>
    /\ StatusMarkers(SelfVariant) = <<>>
    /\ self.fields.kind = "Named"
    /\ ret = 500

\* C3: status_code() of a value of a variant with a status attribute is the
\* value of a status attribute's expression of that variant (of the only one,
\* when there is one), whatever the payload; and the arm's pattern is one
\* wildcard per positional field, {..} for named fields, none for a unit.
C3_ExplicitClassification ==
    /\ (pc = "status_code" /\ StatusMarkers(SelfVariant) # <<>>) =>
            \E k \in DOMAIN StatusMarkers(SelfVariant) :
                ret = Eval(StatusMarkers(SelfVariant)[k].tokens)
    /\ Generated =>
            \A i \in DOMAIN input.variants :
                LET f == input.variants[i].fields
                    pat == output.status_codes[i].pattern
                IN  /\ f.kind = "Unnamed" => pat.delim = "paren" /\ pat.wild = f.n /\ ~pat.rest
                    /\ f.kind = "Named" => pat.delim = "brace" /\ pat.wild = 0 /\ pat.rest
                    /\ f.kind = "Unit" => pat.delim = "none" /\ pat.wild = 0 /\ ~pat.rest

C3_Witness ==
    /\ pc = "status_code"
    /\ Len(StatusMarkers(SelfVariant)) = 1
    /\ self.fields.kind = "Unnamed"
    /\ self.fields.vals = <<"q">>
    /\ ret = 422

\* C4: whenever status_code() of the value is not a 5xx status, the error
\* field of the body is the value's display message.
C4_PassThrough ==
    (pc = "into_response" /\ ~ServerFault(SelfStatus)) => ret.body.error = to_string

C4_Witness ==
    /\ pc = "into_response"
    /\ SelfStatus = 422
    /\ to_string = "body is invalid: bad input"
    /\ ret.body.error = "body is invalid: bad input"

\* C5: a call of into_response on a value with a 5xx status appends exactly
\* one event to the log, carrying the value's display message and its Debug
\* rendering; a call on any other value, and every other step, leaves the log
\* as it was.
C5_LogEmission ==
    [][IF pc' = "into_response" /\ pc # "into_response"
       THEN IF ServerFault(status_code(output'.status_codes, self'))
            THEN /\ Len(log') = Len(log) + 1
                 /\ SubSeq(log', 1, Len(log)) = log
                 /\ log'[Len(log')].error_message = to_string'
                 /\ SplitLines(log'[Len(log')].error_details, <<>>)[1] = <<to_string'>>
                 /\ Len(SplitLines(log'[Len(log')].error_details, <<>>)) = 2 + 2 * Len(source')
                 /\ \A k \in DOMAIN source' :
                        SplitLines(log'[Len(log')].error_details, <<>>)[2 * k + 2] = <<"\t", source'[k]>>
            ELSE log' = log
       ELSE log' = log]_vars

C5_Witness ==
    /\ pc = "into_response"
    /\ Len(log) = 1
    /\ to_string = "body is invalid: bad input"
    /\ log[1].error_message = "body is invalid: bad input"
    /\ Len(source) = MaxChain

\* C6: the response of into_response has the status status_code() gives for
\* the value, and a body of exactly the fields code and error, code being the
\* number of that status and error the display message or the literal.
C6_ResponseShape ==
    pc = "into_response" =>
        /\ ret.status = SelfStatus
        /\ DOMAIN ret.body = {"code", "error"}
        /\ ret.body.code = ret.status
        /\ ret.body.error \in {to_string, InternalServerErrorText}

C6_Witness ==
    /\ pc = "into_response"
    /\ ret.status = 422
    /\ ret.body.code = 422
    /\ Len(input.variants) = MaxVariants

\* C7: the Debug text is the display message and one blank line, then for the
\* k-th cause of the chain, in chain order, a line "Caused by:" and a line
\* holding that cause's display message; nothing follows the last cause, so a
\* value without a cause has no "Caused by:" line and one with N causes has N.
C7_DebugRendering ==
    pc = "fmt" =>
        LET lines == SplitLines(ret, <<>>)
            n == Len(source)
        IN  /\ ret[Len(ret)] = "\n"
            /\ Len(lines) = 2 + 2 * n
            /\ lines[1] = <<to_string>>
            /\ lines[2] = <<>>
            /\ \A k \in 1..n :
                /\ lines[2 * k + 1] = <<"Caused by:">>
                /\ lines[2 * k + 2] = <<"\t", source[k]>>
            /\ Cardinality({j \in DOMAIN lines : lines[j] = <<"Caused by:">>}) = n

C7_Witness ==
    /\ pc = "fmt"
    /\ Len(source) = MaxChain
    /\ source[1] # source[2]
    /\ Len(SplitLines(ret, <<>>)) = 2 + 2 * MaxChain

\* C8: on a struct or a union the macro panics with a message and returns no
\* definition; on an enum it never panics and returns all three impls.
C8_RefusalOfNonEnum ==
    /\ pc = "panicked" => input.data \in {"Struct", "Union"} /\ output = NoOutput /\ panic # ""
    /\ (input.data \in {"Struct", "Union"} /\ pc # "start") => pc = "panicked"
    /\ Generated => pc # "panicked" /\ panic = "" /\ output.impls = AllImpls
    /\ (input.data = "Enum" /\ pc = "start") => ENABLED derive_error_response

C8_Witness ==
    /\ pc = "panicked"
    /\ input.data = "Struct"
    /\ output = NoOutput

\* C9 as stated: the arm of a variant with several status attributes holds
\* the expression of the last of them.
C9_LastOneWins ==
    Generated =>
        \A i \in DOMAIN input.variants :
            LET m == StatusMarkers(input.variants[i])
            IN  Len(m) > 1 => output.status_codes[i].body = m[Len(m)].tokens

\* C9 as amended: the arm of a variant with several status attributes holds
\* the expression of the first of them in source order.
C9_FirstOneWins ==
    Generated =>
        \A i \in DOMAIN input.variants :
            LET m == StatusMarkers(input.variants[i])
            IN  Len(m) > 1 => output.status_codes[i].body = m[1].tokens

C9_Witness ==
    /\ Generated
    /\ \E i \in DOMAIN input.variants :
        LET m == StatusMarkers(input.variants[i])
        IN  /\ Len(m) = 2
            /\ m[1].tokens # m[2].tokens
            /\ output.status_codes[i].body = m[1].tokens

\* C10: status_code has one arm per declared variant and no other, in
\* declaration order, each holding the variant's first status expression or
\* the default; an enum without variants gets no arm.
C10_MappingCoverage ==
    Generated =>
        LET arms == output.status_codes
            vs == input.variants
        IN  /\ Len(arms) = Len(vs)
            /\ \A i \in DOMAIN vs :
                /\ arms[i].variant = vs[i].ident
                /\ Cardinality({j \in DOMAIN arms : arms[j].variant = vs[i].ident}) = 1
                /\ IF StatusMarkers(vs[i]) = <<>>
                   THEN arms[i].body = "::axum::http::StatusCode::INTERNAL_SERVER_ERROR"
                   ELSE \E k \in DOMAIN StatusMarkers(vs[i]) :
                            arms[i].body = StatusMarkers(vs[i])[k].tokens
            /\ \A j \in DOMAIN arms : \E i \in DOMAIN vs : arms[j].variant = vs[i].ident

C10_Witness ==
    /\ Generated
    /\ Len(input.variants) = MaxVariants
    /\ Len(output.status_codes) = MaxVariants
    /\ output.status_codes[1].body # output.status_codes[MaxVariants].body

C10_WitnessEmpty ==
    /\ Generated
    /\ input.variants = <<>>
    /\ output.status_codes = <<>>

====
